---- MODULE Spec2Model ----
(***************************************************************************)
(* pyxml2xpath (src/src/xml2xpath/xml2xpath.py): namespace map             *)
(* construction, qualification of raw xpath expressions and the parse()    *)
(* entry point, over bounded XML documents.                                *)
(*                                                                         *)
(* Strings that the program builds or inspects character by character      *)
(* (xpath expressions) are sequences of lexical tokens: "/", "*", "[",     *)
(* "]", ":", a number, a name.  Two expressions are the same string iff    *)
(* they are the same token sequence.                                       *)
(***************************************************************************)
EXTENDS Integers, Sequences, FiniteSets, TLC

\* ------------------------------------------------------------ bounds
MaxNodes == 3
MaxNsNodes == 4

\* ------------------------------------------------ program constants
MAX_ITEMS == 100000
NSIDX_SEED == 98

\* Python's None, as a value of its own (a record, so that it compares with records).
None == [none |-> TRUE]
\* The OrderedDict a run returns, apart from None: its items in order.
Table(items) == [items |-> items]
\* A namespace node without prefix: lxml hands (None, uri); no XML name starts with '#'.
NoPrefix == "#None"

\* --------------------------------------------------------- documents
\* A document is the sequence of its nodes in document order.  Each node:
\* kind, parent (0: child of the document node), prefix and namespace URI
\* ("" when absent), local name (the target of a processing instruction),
\* attributes (name and value).
Attr(n, v) == [name |-> n, value |-> v]

Elem(p, u, l, at) ==
    [kind |-> "element", pfx |-> p, uri |-> u, local |-> l, attrs |-> at]

ElemLabels ==
    { Elem("", "", "a", <<>>),
      Elem("", "", "a", <<Attr("id", "1")>>),
      Elem("", "", "a", <<Attr("id", "2")>>),
      Elem("", "", "b", <<>>),
      Elem("", "u1", "a", <<>>),
      Elem("", "u1", "b", <<>>),
      Elem("", "u2", "a", <<>>),
      Elem("p", "u1", "a", <<>>),
      Elem("p", "u2", "a", <<>>) }

OtherLabels ==
    { [kind |-> "comment", pfx |-> "", uri |-> "", local |-> "", attrs |-> <<>>],
      [kind |-> "pi", pfx |-> "", uri |-> "", local |-> "pitest", attrs |-> <<>>],
      [kind |-> "text", pfx |-> "", uri |-> "", local |-> "", attrs |-> <<>>] }

Labels == ElemLabels \cup OtherLabels

Node(l, par) ==
    [kind |-> l.kind, parent |-> par, pfx |-> l.pfx, uri |-> l.uri,
     local |-> l.local, attrs |-> l.attrs]

RECURSIVE Ancestors(_, _)
\* The ancestors of node i that are nodes of the document (the document node, 0, left out).
Ancestors(d, i) ==
    IF i = 0 \/ d[i].parent = 0 THEN {} ELSE {d[i].parent} \cup Ancestors(d, d[i].parent)

HasRoot(d) == \E i \in 1..Len(d) : d[i].parent = 0 /\ d[i].kind = "element"

\* Whether a node with label l and parent par may come next after the
\* nodes d: one root element; only comments and processing instructions
\* beside it; children only under elements; document order is preorder; no
\* two adjacent text nodes.
MayFollow(d, l, par) ==
    LET n == Len(d) IN
    /\ par = 0 => /\ l.kind \in {"element", "comment", "pi"}
                  /\ l.kind = "element" => ~HasRoot(d)
    /\ par # 0 => /\ d[par].kind = "element"
                  /\ par \in ({n} \cup Ancestors(d, n))
    /\ (n > 0 /\ l.kind = "text" /\ d[n].kind = "text") => d[n].parent # par

\* The sequences of n nodes that begin a well-formed document.
RECURSIVE Prefixes(_)
Prefixes(n) ==
    IF n = 0 THEN {<<>>}
    ELSE UNION { { Append(d, Node(l, par)) :
                      <<l, par>> \in {x \in Labels \X (0..(n - 1)) : MayFollow(d, x[1], x[2])} }
                 : d \in Prefixes(n - 1) }

\* The documents of at most max nodes.
Docs(max) == UNION { {d \in Prefixes(n) : HasRoot(d)} : n \in 1..max }

\* ------------------------------------------- Python dict / OrderedDict
\* A dict is the sequence of its items <<key, value>> in insertion order.
DictHas(d, k) == \E i \in 1..Len(d) : d[i][1] = k

DictIdx(d, k) == CHOOSE i \in 1..Len(d) : d[i][1] = k

\* d.get(k): None when the key is absent.
DictGet(d, k) == IF DictHas(d, k) THEN d[DictIdx(d, k)][2] ELSE None

\* d[k] = v: an existing key keeps its place, a new key goes last.
DictSet(d, k, v) ==
    IF DictHas(d, k)
    THEN [d EXCEPT ![DictIdx(d, k)] = <<k, v>>]
    ELSE Append(d, <<k, v>>)

DictKeys(d) == [i \in 1..Len(d) |-> d[i][1]]

DictValues(d) == {d[i][2] : i \in 1..Len(d)}

RECURSIVE Flatten(_)
Flatten(ss) == IF ss = <<>> THEN <<>> ELSE Head(ss) \o Flatten(Tail(ss))

\* ------------------------------------------------- the tree engine
Children(d, i) == {j \in 1..Len(d) : d[j].parent = i}

IsElement(d, i) == d[i].kind = "element"

\* The default namespace in scope at node i ("" when there is none).
RECURSIVE DefaultNs(_, _)
DefaultNs(d, i) ==
    IF i = 0 THEN ""
    ELSE IF IsElement(d, i) /\ d[i].pfx = "" THEN d[i].uri
    ELSE DefaultNs(d, d[i].parent)

\* The namespace declarations element i carries: the binding of its own
\* name, and xmlns="" where it leaves an inherited default namespace.
OwnDecl(d, i) ==
    IF d[i].uri # ""
    THEN << <<IF d[i].pfx = "" THEN NoPrefix ELSE d[i].pfx, d[i].uri>> >>
    ELSE IF DefaultNs(d, d[i].parent) # "" THEN << <<NoPrefix, "">> >>
    ELSE <<>>

\* The namespace nodes of element i, its own first, then those of its
\* ancestors whose prefix is not declared nearer (libxml2's xmlGetNsList).
RECURSIVE InScope(_, _, _)
InScope(d, i, seen) ==
    IF i = 0 THEN <<>>
    ELSE LET own == SelectSeq(OwnDecl(d, i), LAMBDA x : x[1] \notin seen)
         IN  own \o InScope(d, d[i].parent,
                            seen \cup {own[j][1] : j \in 1..Len(own)})

\* tree.xpath('//namespace::*[name()!="xml"]'): (prefix, uri) per namespace
\* node, elements in document order.
NamespaceNodes(d) ==
    Flatten([i \in 1..Len(d) |->
                IF IsElement(d, i) THEN InScope(d, i, {}) ELSE <<>>])

\* ------------------------------------------- build_namespace_dict
NsPrefix(nsidx) == "ns" \o ToString(nsidx)

NsStart == [nsidx |-> NSIDX_SEED, ns |-> NsPrefix(NSIDX_SEED), nsmap |-> <<>>]

\* The loop gone wrong: a default namespace the map holds is not passed over.
NsStepNoValuesTest(st, k, v) ==
    IF k # NoPrefix
    THEN [st EXCEPT !.nsmap = DictSet(st.nsmap, k, v)]
    ELSE IF v = ""
    THEN st
    ELSE IF DictHas(st.nsmap, st.ns) /\ DictGet(st.nsmap, st.ns) = v
    THEN st
    ELSE IF DictHas(st.nsmap, st.ns) /\ DictGet(st.nsmap, st.ns) # v
    THEN [nsidx |-> st.nsidx + 1,
          ns    |-> NsPrefix(st.nsidx + 1),
          nsmap |-> DictSet(st.nsmap, NsPrefix(st.nsidx + 1), v)]
    ELSE [st EXCEPT !.nsmap = DictSet(st.nsmap, st.ns, v)]

\* The loop gone wrong: an empty default namespace is not passed over.
NsStepNoEmptyTest(st, k, v) ==
    IF k # NoPrefix
    THEN [st EXCEPT !.nsmap = DictSet(st.nsmap, k, v)]
    ELSE IF v \in DictValues(st.nsmap)
    THEN st
    ELSE IF DictHas(st.nsmap, st.ns) /\ DictGet(st.nsmap, st.ns) = v
    THEN st
    ELSE IF DictHas(st.nsmap, st.ns) /\ DictGet(st.nsmap, st.ns) # v
    THEN [nsidx |-> st.nsidx + 1,
          ns    |-> NsPrefix(st.nsidx + 1),
          nsmap |-> DictSet(st.nsmap, NsPrefix(st.nsidx + 1), v)]
    ELSE [st EXCEPT !.nsmap = DictSet(st.nsmap, st.ns, v)]

\* One turn of the loop over nslst, on the pair (k, v).
NsStep(st, k, v) ==
    IF k # NoPrefix
    THEN [st EXCEPT !.nsmap = DictSet(st.nsmap, k, v)]
    ELSE IF v \in DictValues(st.nsmap) \/ v = ""
    THEN st
    ELSE IF DictHas(st.nsmap, st.ns) /\ DictGet(st.nsmap, st.ns) = v
    THEN st
    ELSE IF DictHas(st.nsmap, st.ns) /\ DictGet(st.nsmap, st.ns) # v
    THEN [nsidx |-> st.nsidx + 1,
          ns    |-> NsPrefix(st.nsidx + 1),
          nsmap |-> DictSet(st.nsmap, NsPrefix(st.nsidx + 1), v)]
    ELSE [st EXCEPT !.nsmap = DictSet(st.nsmap, st.ns, v)]

RECURSIVE NsFold(_, _)
NsFold(st, lst) ==
    IF lst = <<>> THEN st
    ELSE NsFold(NsStep(st, Head(lst)[1], Head(lst)[2]), Tail(lst))

build_namespace_dict(nslst) == NsFold(NsStart, nslst).nsmap

\* ------------------------------------------------------- getpath
Num(n) == ToString(n)

\* Whether sibling t counts for the position of node c (xmlGetNodePath).
SameStep(d, c, t) ==
    CASE d[c].kind = "element" ->
            /\ d[t].kind = "element"
            /\ \/ (d[c].uri # "" /\ d[c].pfx = "")
               \/ /\ d[c].local = d[t].local
                  /\ \/ (d[c].uri = "" /\ d[t].uri = "")
                     \/ (d[c].uri # "" /\ d[t].uri # "" /\ d[c].pfx = d[t].pfx)
      [] d[c].kind = "comment" -> d[t].kind = "comment"
      [] d[c].kind = "pi" -> d[t].kind = "pi" /\ d[t].local = d[c].local
      [] OTHER -> FALSE

\* The position written in the step of node c: 0 when no sibling counts.
Occur(d, c) ==
    LET sib  == Children(d, d[c].parent)
        prev == Cardinality({t \in sib : t < c /\ SameStep(d, c, t)})
    IN  IF prev = 0
        THEN IF \E t \in sib : t > c /\ SameStep(d, c, t) THEN 1 ELSE 0
        ELSE prev + 1

StepName(d, c) ==
    CASE d[c].kind = "element" ->
            IF d[c].uri = "" THEN <<d[c].local>>
            ELSE IF d[c].pfx # "" THEN <<d[c].pfx, ":", d[c].local>>
            ELSE <<"*">>
      [] d[c].kind = "comment" -> <<"comment()">>
      [] OTHER -> <<"processing-instruction('" \o d[c].local \o "')">>

\* tree.getpath(node) for an element, a comment or a processing instruction.
RECURSIVE getpath(_, _)
getpath(d, c) ==
    IF c = 0 THEN <<>>
    ELSE getpath(d, d[c].parent) \o <<"/">> \o StepName(d, c)
            \o (IF Occur(d, c) = 0 THEN <<>> ELSE <<"[", Num(Occur(d, c)), "]">>)


\* --------------------------------------- the engine's XPath evaluation
Punct == {"/", "*", "[", "]", ":", "comment()", "('", "', ", ", ", ")", "None"}

IsPI(tok) == \E l \in Labels : l.kind = "pi" /\ tok = StepName(<<l>>, 1)[1]

IsName(tok) == tok \notin Punct /\ ~IsPI(tok)

\* The number a token writes, 0 when it writes none the documents can use.
NumVal(tok) ==
    IF \E n \in 1..MaxNodes : Num(n) = tok
    THEN CHOOSE n \in 1..MaxNodes : Num(n) = tok
    ELSE 0

NoParse == [ok |-> FALSE, steps |-> <<>>]

\* A location path read as steps: separator ("/" or "//"), node test,
\* optional position.  Anything else is a syntax error.
RECURSIVE ParseSteps(_)
ParseSteps(toks) ==
    IF toks = <<>> THEN [ok |-> TRUE, steps |-> <<>>]
    ELSE IF toks[1] # "/" THEN NoParse
    ELSE
      LET desc == Len(toks) >= 2 /\ toks[2] = "/"
          r    == SubSeq(toks, IF desc THEN 3 ELSE 2, Len(toks))
      IN
      IF r = <<>> THEN NoParse
      ELSE
        LET pref == Len(r) >= 3 /\ r[2] = ":"
            used == IF pref THEN 3 ELSE 1
            test == IF pref
                    THEN [type |-> "name", pfx |-> r[1], local |-> r[3]]
                    ELSE [type |-> CASE r[1] = "*" -> "any"
                                     [] r[1] = "comment()" -> "comment"
                                     [] IsPI(r[1]) -> "pi"
                                     [] OTHER -> "name",
                          pfx |-> "", local |-> r[1]]
            okT  == IF pref THEN IsName(r[1]) /\ IsName(r[3])
                    ELSE r[1] \in {"*", "comment()"} \/ IsPI(r[1]) \/ IsName(r[1])
            r2   == SubSeq(r, used + 1, Len(r))
            pred == r2 # <<>> /\ r2[1] = "["
            okP  == ~pred \/ (Len(r2) >= 3 /\ NumVal(r2[2]) >= 1 /\ r2[3] = "]")
            pos  == IF pred /\ okP THEN NumVal(r2[2]) ELSE 0
            r3   == IF pred /\ okP THEN SubSeq(r2, 4, Len(r2)) ELSE r2
            more == ParseSteps(r3)
        IN
        IF ~okT \/ ~okP \/ ~more.ok THEN NoParse
        ELSE [ok |-> TRUE,
              steps |-> <<[desc |-> desc, test |-> test, pos |-> pos]>> \o more.steps]

RECURSIVE Descendants(_, _)
Descendants(d, c) ==
    Children(d, c) \cup UNION {Descendants(d, j) : j \in Children(d, c)}

\* The node test of a step on node j, under the prefix map nsm.
NodeTest(d, nsm, t, j) ==
    CASE t.type = "any" -> d[j].kind = "element"
      [] t.type = "comment" -> d[j].kind = "comment"
      [] t.type = "pi" -> d[j].kind = "pi" /\ StepName(d, j)[1] = t.local
      [] OTHER ->
            /\ d[j].kind = "element"
            /\ d[j].local = t.local
            /\ d[j].uri = (IF t.pfx = "" THEN "" ELSE DictGet(nsm, t.pfx))

\* The children of c a step selects: all that pass the test, or the one at
\* the step's position among them.
StepFrom(d, nsm, st, c) ==
    LET m == {j \in Children(d, c) : NodeTest(d, nsm, st.test, j)}
    IN  IF st.pos = 0 THEN m
        ELSE {j \in m : Cardinality({k \in m : k <= j}) = st.pos}

RECURSIVE EvalSteps(_, _, _, _)
EvalSteps(d, nsm, steps, ctx) ==
    IF steps = <<>> THEN ctx
    ELSE LET st   == Head(steps)
             base == IF st.desc
                     THEN ctx \cup UNION {Descendants(d, c) : c \in ctx}
                     ELSE ctx
         IN  EvalSteps(d, nsm, Tail(steps),
                       UNION {StepFrom(d, nsm, st, c) : c \in base})

\* int(tree.xpath("count(<path>)", namespaces=nsmap)): the count, or the
\* evaluation raising (a syntax error, an undefined prefix).
XPathCount(d, nsm, toks) ==
    LET ps == ParseSteps(toks) IN
    IF ~ps.ok THEN [ok |-> FALSE, n |-> 0]
    ELSE IF \E i \in 1..Len(ps.steps) :
                ps.steps[i].test.pfx # "" /\ ~DictHas(nsm, ps.steps[i].test.pfx)
    THEN [ok |-> FALSE, n |-> 0]
    ELSE [ok |-> TRUE, n |-> Cardinality(EvalSteps(d, nsm, ps.steps, {0}))]


\* ------------------------------------------------ qualified names
\* etree.QName(ele.tag) of an element: namespace ("" for None) and localname.
QName(d, e) == [namespace |-> d[e].uri, localname |-> d[e].local]

\* _get_qualified_name: <prefix>:<local-name> when the namespace has a
\* prefix in revns, else the local name (revns has no key None).
get_qualified_name(qname, revns) ==
    IF qname.namespace # "" /\ DictHas(revns, qname.namespace)
    THEN <<DictGet(revns, qname.namespace), ":", qname.localname>>
    ELSE <<qname.localname>>

\* element.keys(): the attribute names; [] for a comment or a processing instruction.
Keys(d, e) == [i \in 1..Len(d[e].attrs) |-> d[e].attrs[i].name]

Rec(q, c, a) == [qpath |-> q, count |-> c, attrs |-> a]

\* _get_dict_list_value gone wrong: the attribute names are left out.
get_dict_list_value_no_keys(value, d, e) == Rec(value, 0, [names |-> <<>>])

\* _get_dict_list_value(value, element)
get_dict_list_value(value, d, e) == Rec(value, 0, [names |-> Keys(d, e)])

\* ------------------------------------------ _build_path_from_parts
\* s.split(a + b), a and b adjacent tokens.
RECURSIVE SplitAcc(_, _, _, _)
SplitAcc(s, a, b, cur) ==
    IF s = <<>> THEN <<cur>>
    ELSE IF Len(s) >= 2 /\ s[1] = a /\ s[2] = b
    THEN <<cur>> \o SplitAcc(SubSeq(s, 3, Len(s)), a, b, <<>>)
    ELSE SplitAcc(Tail(s), a, b, Append(cur, Head(s)))

SplitOn(s, a, b) == SplitAcc(s, a, b, <<>>)

RECURSIVE NamesRepr(_)
NamesRepr(ns) ==
    IF ns = <<>> THEN <<>>
    ELSE <<"'" \o Head(ns) \o "'">>
            \o (IF Len(ns) > 1 THEN <<", ">> ELSE <<>>) \o NamesRepr(Tail(ns))

\* str() of a record tuple, as the f-string writes it.
TupleRepr(r) ==
    <<"('">> \o r.qpath \o <<"', ", Num(r.count), ", ">>
        \o (IF r.attrs = None THEN <<"None">>
            ELSE <<"[">> \o NamesRepr(r.attrs.names) \o <<"]">>)
        \o <<")">>

\* f'{xmap.get(last) or ""}'
GetOrEmpty(xmap, last) ==
    IF DictGet(xmap, last) = None THEN <<>> ELSE TupleRepr(DictGet(xmap, last))

\* One turn of the loop over parts[1:], on st = [xmap, last].
PartStep(st, xp, p, qn, d, e) ==
    LET key == st.last \o <<"/", "*">> \o p IN
    IF ~DictHas(st.xmap, key)
    THEN [xmap |-> DictSet(st.xmap, xp,
                     get_dict_list_value(GetOrEmpty(st.xmap, st.last) \o <<"/">> \o qn, d, e)),
          last |-> xp]
    ELSE IF xp[Len(xp)] \notin {"*", "]"}
    THEN LET l2 == SplitOn(xp, "]", "/")[1] \o <<"]">> IN
         [xmap |-> DictSet(st.xmap, xp,
                     get_dict_list_value(GetOrEmpty(st.xmap, l2) \o <<"/">> \o qn, d, e)),
          last |-> l2]
    ELSE [xmap |-> st.xmap, last |-> key]

RECURSIVE PartFold(_, _, _, _, _, _)
PartFold(st, xp, ps, qn, d, e) ==
    IF ps = <<>> THEN st
    ELSE PartFold(PartStep(st, xp, Head(ps), qn, d, e), xp, Tail(ps), qn, d, e)

\* _build_path_from_parts gone wrong: lines 90-91 are left out.
build_path_from_parts_no_root(xmap, xp, qname, revns, d, e) ==
    PartFold([xmap |-> xmap, last |-> SplitOn(xp, "/", "*")[1]], xp,
             Tail(SplitOn(xp, "/", "*")), get_qualified_name(qname, revns), d, e).xmap

\* _build_path_from_parts(xmap, xp, qname, revns, ele): the table it leaves.
build_path_from_parts(xmap, xp, qname, revns, d, e) ==
    LET parts == SplitOn(xp, "/", "*")
        qn    == get_qualified_name(qname, revns)
        x1    == IF xp = <<"/", "*">>
                 THEN DictSet(xmap, xp, get_dict_list_value(<<"/">> \o qn, d, e))
                 ELSE xmap
    IN  PartFold([xmap |-> x1, last |-> parts[1]], xp, Tail(parts), qn, d, e).xmap

\* ------------------------------------------------- parse_mixed_ns
\* The selected nodes in document order.
RECURSIVE Ordered(_)
Ordered(S) ==
    IF S = {} THEN <<>>
    ELSE LET m == CHOOSE x \in S : \A y \in S : x <= y
         IN  <<m>> \o Ordered(S \ {m})

\* lst[:n] gone wrong: one item too many.
SliceOneMore(lst, n) ==
    SubSeq(lst, 1, IF n + 1 < Len(lst) THEN n + 1 ELSE Len(lst))

\* lst[:n]
Slice(lst, n) ==
    IF n >= 0 THEN SubSeq(lst, 1, IF n < Len(lst) THEN n ELSE Len(lst))
    ELSE SubSeq(lst, 1, IF Len(lst) + n > 0 THEN Len(lst) + n ELSE 0)

\* {v: k or 'ns' for k, v in nsmap.items()}
RECURSIVE RevFold(_, _)
RevFold(acc, items) ==
    IF items = <<>> THEN acc
    ELSE RevFold(DictSet(acc, Head(items)[2],
                         IF Head(items)[1] \in {"", NoPrefix} THEN "ns" ELSE Head(items)[1]),
                 Tail(items))

revns_of(nsmap) == RevFold(<<>>, nsmap)

\* The raw path the engine reports for node n.  A defective engine
\* (dup = <<i, j>>) reports for node j the path of node i.
EnginePath(d, dup, n) == IF n = dup[2] THEN getpath(d, dup[1]) ELSE getpath(d, n)

\* OrderedDict.fromkeys(paths): every key once, at its first place, value None.
RECURSIVE FromKeys(_, _)
FromKeys(acc, ks) ==
    IF ks = <<>> THEN acc
    ELSE FromKeys(IF DictHas(acc, Head(ks)) THEN acc ELSE Append(acc, <<Head(ks), None>>),
                  Tail(ks))

Root(d) == CHOOSE i \in 1..Len(d) : d[i].parent = 0 /\ d[i].kind = "element"

Raised(st) == [st EXCEPT !.raised = TRUE]

\* Lines 173-176: the parent's raw path xpp is a key of the table.
UnderKnownParent(xmap, xpp, xp, qn, pqn, d, ele) ==
    get_dict_list_value(
        (IF DictGet(xmap, xpp) = None THEN <<"/", "/">> \o pqn
         ELSE DictGet(xmap, xpp).qpath) \o <<"/">> \o qn, d, ele)

ParentFilled(xmap, xpp, pqn, d, ele) ==
    IF DictGet(xmap, xpp) = None
    THEN DictSet(xmap, xpp, get_dict_list_value(<<"/", "/">> \o pqn, d, ele))
    ELSE xmap

\* Lines 166-183: an element with a parent; qn and pqn are the qualified
\* names of the element and of its parent, xpp the parent's raw path.
QualifyChild(xmap, d, xpp, xp, qn, pqn, ele) ==
    IF DictHas(xmap, xpp)
    THEN DictSet(ParentFilled(xmap, xpp, pqn, d, ele), xp,
                 UnderKnownParent(xmap, xpp, xp, qn, pqn, d, ele))
    ELSE DictSet(xmap, xp,
                 get_dict_list_value(
                    (IF d[ele].parent = Root(d) THEN <<"/">> ELSE <<"/", "/">>)
                        \o pqn \o <<"/">> \o qn, d, ele))

\* Line 158 gone wrong: the positional predicates are left out of the value.
AlreadyQualifiedNoPosition(xp, d, ele) ==
    get_dict_list_value(
        SelectSeq(xp, LAMBDA t : t \notin ({"[", "]"} \cup {Num(n) : n \in 1..MaxNodes})),
        d, ele)

\* Line 158: the raw path has no "*" and is kept as it is.
AlreadyQualified(xp, d, ele) == get_dict_list_value(xp, d, ele)

\* Lines 153-191: the record of key xp from node ele.
Qualify(st, d, dup, revns, xp, ele) ==
    IF \A i \in 1..Len(xp) : xp[i] # "*"
    THEN [st EXCEPT !.xmap = DictSet(@, xp, AlreadyQualified(xp, d, ele))]
    ELSE IF d[ele].parent # 0
    THEN IF d[ele].kind = "element"
         THEN [st EXCEPT !.xmap =
                 QualifyChild(@, d, EnginePath(d, dup, d[ele].parent), xp,
                              get_qualified_name(QName(d, ele), revns),
                              get_qualified_name(QName(d, d[ele].parent), revns), ele)]
         ELSE [st EXCEPT !.xmap = DictSet(@, xp, Rec(xp, 0, None))]
    \* etree.QName(ele.tag) raises for a comment or a processing instruction
    ELSE IF d[ele].kind # "element" THEN Raised(st)
    ELSE [st EXCEPT !.xmap = build_path_from_parts(@, xp, QName(d, ele), revns, d, ele)]

\* Lines 199-203, with the count c the engine gave for record r.
Counted(st, xp, r, c) ==
    IF ~c.ok THEN Raised(st)
    ELSE [xmap   |-> DictSet(st.xmap, xp, Rec(r.qpath, c.n, r.attrs)),
          err    |-> IF c.n = 0
                     THEN Append(st.err, [msg |-> "0 elements found", xp |-> xp])
                     ELSE st.err,
          raised |-> FALSE]

\* Lines 194-203: the count of the qualified expression; xmap[xp][0]
\* raises when the key has no record.
CountOf(st, d, nsmap, xp, r) ==
    IF r = None THEN Raised(st)
    ELSE Counted(st, xp, r, XPathCount(d, nsmap, r.qpath))

Count(st, d, nsmap, xp) == CountOf(st, d, nsmap, xp, DictGet(st.xmap, xp))

ThenCount(q, d, nsmap, with_count, xp) ==
    IF q.raised \/ ~with_count THEN q ELSE Count(q, d, nsmap, xp)

\* One turn of the loop of line 150, on key xp at index idx (from 1).
LoopStep(st, d, nsmap, call, revns, elements, idx, xp) ==
    ThenCount(Qualify(st, d, call.dup, revns, xp, elements[idx]),
              d, nsmap, call.with_count, xp)

RECURSIVE LoopFold(_, _, _, _, _, _, _, _)
LoopFold(st, d, nsmap, call, revns, elements, keys, idx) ==
    IF st.raised \/ idx > Len(keys) THEN st
    ELSE LoopFold(LoopStep(st, d, nsmap, call, revns, elements, idx, keys[idx]),
                  d, nsmap, call, revns, elements, keys, idx + 1)

Returned(st) == [xmap |-> Table(st.xmap), err |-> st.err, raised |-> st.raised]

\* Lines 150-204, from the table of keys xmap0.
Loop(xmap0, d, nsmap, call, elements) ==
    Returned(LoopFold([xmap |-> xmap0, err |-> <<>>, raised |-> FALSE],
                      d, nsmap, call, revns_of(nsmap), elements, DictKeys(xmap0), 1))

\* The TypeError gone wrong: seen on the first node only.
HasUnsupportedFirst(d, first) == first # <<>> /\ d[first[1]].kind = "text"

\* Whether getpath raises TypeError on one of the nodes (a text result).
HasUnsupported(d, first) == \E i \in 1..Len(first) : d[first[i]].kind = "text"

\* Lines 135-204, from the selected nodes and the first max_items of them.
FromSelected(d, nsmap, call, elements, first) ==
    IF HasUnsupported(d, first)
    THEN [xmap |-> None,
          err  |-> <<[msg |-> "text() nodes not supported", xpath_base |-> call.sel]>>,
          raised |-> FALSE]
    ELSE IF call.fault = "getpath" /\ first # <<>>
    THEN [xmap |-> None, err |-> <<[msg |-> "Unexpected error"]>>, raised |-> FALSE]
    ELSE Loop(FromKeys(<<>>, [i \in 1..Len(first) |-> EnginePath(d, call.dup, first[i])]),
              d, nsmap, call, elements)

\* parse_mixed_ns(tree, nsmap, xpath_base, with_count=, max_items=): the
\* table returned (None after a reported error), what went to stderr, and
\* whether an exception left the function.
parse_mixed_ns(d, nsmap, call) ==
    IF call.fault = "xpath"
    THEN [xmap |-> None, err |-> <<>>, raised |-> TRUE]
    ELSE FromSelected(d, nsmap, call, Ordered(call.sel),
                      Slice(Ordered(call.sel), call.max_items))

\* ------------------------------------------------------------ parse
\* Lines 305-308 gone wrong: the exception is swallowed.
ParseEndSwallowed(nsmap, r) ==
    [raised |-> FALSE, nsmap |-> nsmap, xmap |-> r.xmap, err |-> r.err]

\* Lines 305-308: the tuple returned, or the exception reported and raised again.
ParseEnd(nsmap, r) ==
    IF r.raised
    THEN [raised |-> TRUE, nsmap |-> nsmap, xmap |-> None,
          err |-> Append(r.err, [msg |-> "ERROR. exception"])]
    ELSE [raised |-> FALSE, nsmap |-> nsmap, xmap |-> r.xmap, err |-> r.err]

ParseTree(d, call, nsmap) == ParseEnd(nsmap, parse_mixed_ns(d, nsmap, call))

\* parse(file, itree=, xpath_base=, with_count=, max_items=): what the
\* caller gets.
parse_result(d, call) ==
    IF call.fault = "nofile"
    THEN [raised |-> TRUE, nsmap |-> <<>>, xmap |-> None,
          err |-> <<[msg |-> "ERROR. FileNotFoundError"]>>]
    ELSE ParseTree(d, call, build_namespace_dict(NamespaceNodes(d)))

\* ----------------------------------------------------- print_xpaths
\* The modes of line 18 and the default of the parameter (line 207).
modes == {"xpath", "all", "raw", "values", "path"}

NoPrint == [out |-> <<>>, acount |-> 0, acountmsg |-> FALSE,
            raised |-> FALSE, summary |-> None]

\* Lines 222-223: print(qual_xpath_lst[0]); subscripting None raises TypeError.
PrintPath(st, mode, v) ==
    IF mode \in {"raw", "values"} THEN st
    ELSE IF v = None THEN Raised(st)
    ELSE [st EXCEPT !.out = Append(@, [line |-> v.qpath])]

\* Lines 228-230: one line per attribute name.
PrintAttrs(st, v, names) ==
    [st EXCEPT !.out = @ \o [i \in 1..Len(names) |->
                                [line |-> v.qpath \o <<"/", "@", names[i]>>]],
               !.acount = @ + Len(names)]

\* Lines 225-231: 'x is not []' compares with a new list and is always
\* true; iterating None raises TypeError.
PrintAll(st, mode, v) ==
    IF st.raised \/ mode # "all" THEN st
    ELSE IF v.attrs = None THEN Raised(st)
    ELSE [PrintAttrs(st, v, v.attrs.names) EXCEPT !.acountmsg = TRUE]

\* Lines 232-235.
PrintRaw(st, mode, k, v) ==
    IF st.raised THEN st
    ELSE IF mode = "raw" THEN [st EXCEPT !.out = Append(@, [key |-> k, value |-> v])]
    ELSE IF mode = "values" THEN [st EXCEPT !.out = Append(@, [value |-> v])]
    ELSE st

\* One turn of the loop of line 221, on the item (k, v).
PrintStep(st, mode, k, v) ==
    PrintRaw(PrintAll(PrintPath(st, mode, v), mode, v), mode, k, v)

RECURSIVE PrintFold(_, _, _)
PrintFold(st, mode, items) ==
    IF st.raised \/ items = <<>> THEN st
    ELSE PrintFold(PrintStep(st, mode, Head(items)[1], Head(items)[2]), mode, Tail(items))

\* Line 237: the summary that goes to out_fd.
PrintEnd(st, n) ==
    IF st.raised THEN st
    ELSE [st EXCEPT !.summary = [elements |-> n,
                                 attributes |-> IF st.acountmsg THEN <<st.acount>> ELSE <<>>]]

\* print_xpaths(xmap, mode): the lines printed, the summary, and whether
\* an exception left the function.
print_xpaths_result(items, mode) ==
    PrintEnd(PrintFold(NoPrint, mode, items), Len(items))

\* ------------------------------------------ a reordered document
AllElements(d) == {i \in 1..Len(d) : d[i].kind = "element"}

\* The nodes '//* | //processing-instruction() | //comment()' selects.
ReallyAll(d) == {i \in 1..Len(d) : d[i].kind \in {"element", "comment", "pi"}}

EndOf(d, j) == CHOOSE m \in {j} \cup Descendants(d, j) :
                  \A k \in {j} \cup Descendants(d, j) : k <= m

\* Sibling elements i and j, j right after i (and after what i holds).
AdjacentSiblings(d, i, j) ==
    /\ i \in AllElements(d) /\ j \in AllElements(d)
    /\ d[i].parent = d[j].parent
    /\ j = EndOf(d, i) + 1

\* The document with the adjacent siblings i and j (and what they hold)
\* in the other order.
SwapSiblings(d, i, j) ==
    LET endJ  == EndOf(d, j)
        lenJ  == endJ - j + 1
        order == [k \in 1..Len(d) |->
                    IF k < i THEN k
                    ELSE IF k < i + lenJ THEN j + (k - i)
                    ELSE IF k <= endJ THEN i + (k - i - lenJ)
                    ELSE k]
        pos(m) == CHOOSE k \in 1..Len(d) : order[k] = m
    IN  [k \in 1..Len(d) |->
            [d[order[k]] EXCEPT !.parent = IF @ = 0 THEN 0 ELSE pos(@)]]

\* -------------------------------------------------------- the state
ItemCaps == (0..(MaxNodes - 1)) \cup {MAX_ITEMS}

Faults == {"none", "xpath", "getpath", "nofile"}

NoCall == [sel |-> {}, with_count |-> FALSE, max_items |-> 0,
           fault |-> "none", dup |-> <<0, 0>>]

NoResult == [raised |-> FALSE, nsmap |-> <<>>, xmap |-> None, err |-> <<>>]

NoOther == [pair |-> <<0, 0>>, doc |-> <<>>, result |-> NoResult]

\* The namespace nodes build_namespace_dict may be fed.
NsPairs ==
    ({NoPrefix, "p", "q", "ns98"} \X {"u1", "u2", "u3"}) \cup {<<NoPrefix, "">>}

NsLists == UNION {[1..n -> NsPairs] : n \in 0..MaxNsNodes}

NoBuilt == [xp |-> <<>>, node |-> 0, revns |-> <<>>, before |-> <<>>, after |-> <<>>]

VARIABLES
    doc,     \* the document parsed
    pc,      \* "ready", "returned", "raised", "compared", "printed", "built"; "ns" in a run of the namespace loop
    call,    \* the arguments of the call of parse, and what the engine does in it
    result,  \* what parse gave back
    other,   \* the reordered document and what parse gave back for it
    nslst,   \* build_namespace_dict: the namespace nodes,
    nsi,     \*   how many the loop has taken,
    nsst,    \*   nsidx, ns and nsmap
    mode,    \* print_xpaths: its mode,
    printed, \*   and what it printed
    built    \* _build_path_from_parts: its arguments and the table it leaves

vars == <<doc, pc, call, result, other, nslst, nsi, nsst, mode, printed, built>>

Init ==
    /\ doc \in Docs(MaxNodes)
    /\ pc = "ready"
    /\ call = NoCall
    /\ result = NoResult
    /\ other = NoOther
    /\ nslst = <<>> /\ nsi = 0 /\ nsst = NsStart
    /\ mode = "" /\ printed = NoPrint /\ built = NoBuilt

\* A call of parse() on the document: any start expression (the nodes it
\* selects), with or without counting, any cap; the file may be missing,
\* the engine may fail, or report the path of one selected node for a
\* later one.
parse ==
    /\ pc = "ready"
    /\ \E sel \in SUBSET (1..Len(doc)), wc \in BOOLEAN, mi \in ItemCaps,
          f \in Faults, dp \in {<<0, 0>>} \cup ((1..Len(doc)) \X (1..Len(doc))) :
          /\ dp # <<0, 0>> =>
                /\ f = "none" /\ dp[1] < dp[2] /\ {dp[1], dp[2]} \subseteq sel
                /\ doc[dp[1]].kind # "text" /\ doc[dp[2]].kind # "text"
          /\ call' = [sel |-> sel, with_count |-> wc, max_items |-> mi,
                      fault |-> f, dup |-> dp]
          /\ result' = parse_result(doc, call')
          /\ pc' = IF result'.raised THEN "raised" ELSE "returned"
    /\ UNCHANGED <<doc, other, nslst, nsi, nsst, mode, printed, built>>

\* parse() with the arguments of call on the reordered document d2: the
\* start expression selects there what it selects in the first document.
Reordered(c, elementsOnly, pair, d2) ==
    [pair |-> pair, doc |-> d2,
     result |-> parse_result(d2, [c EXCEPT !.sel = IF elementsOnly THEN AllElements(d2)
                                                    ELSE ReallyAll(d2)])]

\* After a run with one of the two start expressions the module names
\* (XPATH_ALL, XPATH_REALLY_ALL): the same call on the document with two
\* adjacent sibling elements in the other order (tests/test_01.py,
\* test_compare_order).
parse_reordered ==
    /\ pc = "returned"
    /\ call.fault = "none" /\ call.dup = <<0, 0>>
    /\ call.sel \in {AllElements(doc), ReallyAll(doc)}
    /\ \E i, j \in 1..Len(doc) :
          /\ AdjacentSiblings(doc, i, j)
          /\ other' = Reordered(call, call.sel = AllElements(doc), <<i, j>>,
                                SwapSiblings(doc, i, j))
    /\ pc' = "compared"
    /\ UNCHANGED <<doc, call, result, nslst, nsi, nsst, mode, printed, built>>

Next == parse \/ parse_reordered

Spec == Init /\ [][Next]_vars

\* main(), lines 360-363: the table parse returned, when it is not None,
\* goes to print_xpaths, in any of the modes.
print_xpaths ==
    /\ pc = "returned"
    /\ result.xmap # None
    /\ \E m \in modes :
          /\ mode' = m
          /\ printed' = print_xpaths_result(result.xmap.items, m)
    /\ pc' = "printed"
    /\ UNCHANGED <<doc, call, result, other, nslst, nsi, nsst, built>>

PrintNext == parse \/ print_xpaths

SpecPrint == Init /\ [][PrintNext]_vars

\* The place of x in the sequence s.
IndexOf(s, x) == CHOOSE i \in 1..Len(s) : s[i] = x

\* The table when the loop of line 150 reaches the key at idx: the keys of
\* line 137, the records of the turns before idx.
TableBefore(d, nsmap, c, elements, keys0, idx) ==
    LoopFold([xmap |-> keys0, err |-> <<>>, raised |-> FALSE], d, nsmap, c,
             revns_of(nsmap), elements, SubSeq(DictKeys(keys0), 1, idx - 1), 1).xmap

\* Line 191: the call on key xp and node ele, from the table xmap0.
BuiltFrom(d, xmap0, xp, revns, ele) ==
    [xp |-> xp, node |-> ele, revns |-> revns, before |-> xmap0,
     after |-> build_path_from_parts(xmap0, xp, QName(d, ele), revns, d, ele)]

BuiltAt(d, nsmap, c, elements, first, ele) ==
    BuiltFrom(d,
              TableBefore(d, nsmap, c, elements,
                          FromKeys(<<>>, [i \in 1..Len(first) |-> getpath(d, first[i])]),
                          IndexOf(first, ele)),
              getpath(d, ele), revns_of(nsmap), ele)

\* _build_path_from_parts as parse_mixed_ns calls it (line 191): in a run
\* of the loop with a sound engine, on a selected element without parent
\* whose raw path holds a wildcard, with the table the turns before left.
call_build_path_from_parts ==
    /\ pc = "ready"
    /\ \E sel \in SUBSET (1..Len(doc)), wc \in BOOLEAN, mi \in ItemCaps,
          ele \in 1..Len(doc) :
          /\ ele \in sel /\ Cardinality({n \in sel : n <= ele}) <= mi
          /\ \A n \in sel : doc[n].kind # "text"
          /\ doc[ele].kind = "element" /\ doc[ele].parent = 0
          /\ \E i \in 1..Len(getpath(doc, ele)) : getpath(doc, ele)[i] = "*"
          /\ call' = [sel |-> sel, with_count |-> wc, max_items |-> mi,
                      fault |-> "none", dup |-> <<0, 0>>]
          /\ built' = BuiltAt(doc, build_namespace_dict(NamespaceNodes(doc)), call',
                              Ordered(sel), Slice(Ordered(sel), mi), ele)
    /\ pc' = "built"
    /\ UNCHANGED <<doc, result, other, nslst, nsi, nsst, mode, printed>>

PartsNext == call_build_path_from_parts

SpecParts == Init /\ [][PartsNext]_vars

\* build_namespace_dict on its own, one namespace node per step.
NsInit ==
    /\ nslst \in NsLists
    /\ nsi = 0
    /\ nsst = NsStart
    /\ pc = "ns"
    /\ doc = <<>> /\ call = NoCall /\ result = NoResult /\ other = NoOther
    /\ mode = "" /\ printed = NoPrint /\ built = NoBuilt

ns_loop ==
    /\ pc = "ns"
    /\ nsi < Len(nslst)
    /\ nsi' = nsi + 1
    /\ nsst' = NsStep(nsst, nslst[nsi + 1][1], nslst[nsi + 1][2])
    /\ UNCHANGED <<doc, pc, call, result, other, nslst, mode, printed, built>>

NsNext == ns_loop

SpecNs == NsInit /\ [][NsNext]_vars

\* ======================================================== the claims
Called == pc \in {"returned", "raised", "compared"}
Done == pc \in {"returned", "compared"}

\* The file is there, the engine evaluates and reports paths as it should.
Compliant == call.fault = "none" /\ call.dup = <<0, 0>>

Elements == Ordered(call.sel)

First == Slice(Elements, call.max_items)

HasTable == result.xmap # None

Items == result.xmap.items

NoWildcard(xp) == \A i \in 1..Len(xp) : xp[i] # "*"

\* ---------------------------------------------------------------- C1
\* C1: when qualification runs with match counting, every record of the
\* returned table has matchCount >= 1: count(qualifiedPath), evaluated
\* against the same document with the returned namespace map, selects at
\* least one node.
C1_RoundTripSound ==
    (Done /\ Compliant /\ call.with_count /\ HasTable)
        => \A i \in 1..Len(Items) : Items[i][2].count >= 1

\* ---------------------------------------------------------------- C2
\* C2 (as claimed): no two distinct selected element nodes receive the
\* same qualifiedPath.
C2_UniqueQualifiedPath ==
    (Done /\ Compliant /\ HasTable)
        => \A i, j \in 1..Len(Items) :
              (i # j /\ IsElement(doc, First[i]) /\ IsElement(doc, First[j]))
                  => Items[i][2].qpath # Items[j][2].qpath

\* C2 (amended): no two distinct selected element nodes whose raw paths
\* hold no wildcard receive the same qualifiedPath.
C2_UniqueWhenNoWildcard ==
    (Done /\ Compliant /\ HasTable)
        => \A i, j \in 1..Len(First) :
              (/\ i # j
               /\ IsElement(doc, First[i]) /\ IsElement(doc, First[j])
               /\ NoWildcard(getpath(doc, First[i]))
               /\ NoWildcard(getpath(doc, First[j])))
                  => DictGet(Items, getpath(doc, First[i])).qpath
                        # DictGet(Items, getpath(doc, First[j])).qpath

\* Two selected same-named siblings outside any default namespace, told
\* apart by their positions only.
C2_Witness ==
    /\ Done /\ Compliant /\ HasTable
    /\ \E i, j \in 1..Len(First) :
          /\ i < j
          /\ IsElement(doc, First[i]) /\ IsElement(doc, First[j])
          /\ doc[First[i]].parent = doc[First[j]].parent
          /\ StepName(doc, First[i]) = StepName(doc, First[j])
          /\ NoWildcard(getpath(doc, First[i]))
          /\ DictGet(Items, getpath(doc, First[j])).qpath = getpath(doc, First[j])

\* ---------------------------------------------------------------- C3
Min(a, b) == IF a < b THEN a ELSE b

\* C3: for a start expression selecting n nodes (elements, comments,
\* processing instructions) and max_items >= 0, the table has exactly
\* min(n, max_items) keys, the raw paths of the first min(n, max_items)
\* selected nodes in order, each with a record; with the default start
\* expression and the default cap it is not empty.
C3_KeyCount ==
    (Called /\ Compliant /\ \A n \in call.sel : doc[n].kind # "text")
        => /\ Done /\ HasTable
           /\ Len(Items) = Min(Cardinality(call.sel), call.max_items)
           /\ \A i \in 1..Len(Items) :
                 /\ Items[i][1] = getpath(doc, Elements[i])
                 /\ Items[i][2] # None
           /\ (call.sel = AllElements(doc) /\ call.max_items = MAX_ITEMS)
                 => Len(Items) >= 1

\* The cap cuts a selection of several nodes.
C3_Witness ==
    /\ Done /\ Compliant /\ HasTable
    /\ \A n \in call.sel : doc[n].kind # "text"
    /\ call.max_items >= 1
    /\ Cardinality(call.sel) > call.max_items
    /\ Len(Items) = call.max_items

\* ---------------------------------------------------------------- C7
\* C7: every table entry for a comment or a processing instruction has
\* qualifiedPath equal to its raw path and attributeNames None, whether or
\* not the raw path holds a wildcard.
C7_NonElementRecord ==
    (Done /\ Compliant /\ HasTable)
        => \A i \in 1..Len(Items) :
              ~IsElement(doc, First[i])
                  => /\ Items[i][2].qpath = Items[i][1]
                     /\ Items[i][2].attrs = None

PathFailure ==
    /\ call.fault = "getpath" /\ First # <<>>
    /\ \A i \in 1..Len(First) : doc[First[i]].kind # "text"

\* C10 (as claimed): after an unexpected failure of the engine, in the
\* evaluation of the start expression or in the computation of the raw
\* paths, parse raises: it never returns normally.
C10_AlwaysReraised ==
    (Called /\ (call.fault = "xpath" \/ PathFailure))
        => pc = "raised"

\* C10 (amended): a failure in the evaluation of the start expression is
\* raised again by parse; a failure in the computation of the raw paths is
\* reported on the error channel and parse returns normally, with None for
\* the table.
C10_ReraisedOrNone ==
    (Called)
        => /\ call.fault = "xpath" => (pc = "raised" /\ result.err # <<>>)
           /\ PathFailure => (pc = "returned" /\ ~HasTable /\ result.err # <<>>)

\* getpath failed on a selected node and parse returned.
C10_Witness == pc = "returned" /\ PathFailure /\ ~HasTable

PlaceOf(n) == Cardinality({m \in call.sel : m <= n})

Duplicated ==
    /\ call.dup # <<0, 0>>
    /\ PlaceOf(call.dup[2]) <= call.max_items

\* The first node the engine gave the raw path xp for.
Producer(xp) ==
    First[CHOOSE i \in 1..Len(First) :
             /\ EnginePath(doc, call.dup, First[i]) = xp
             /\ \A j \in 1..(i - 1) : EnginePath(doc, call.dup, First[j]) # xp]

\* C8: when the engine yields one raw path for two selected nodes, the
\* later node is skipped, a diagnostic is emitted, and every key's record
\* is computed from the node that produced the key.
C8_DuplicateSkipped ==
    (Called /\ Duplicated)
        => /\ Done /\ HasTable
           /\ Len(Items) = Len(First) - 1
           /\ \E k \in 1..Len(result.err) : result.err[k].msg # "0 elements found"
           /\ \A i \in 1..Len(Items) :
                 IsElement(doc, Producer(Items[i][1]))
                     => Items[i][2].attrs = [names |-> Keys(doc, Producer(Items[i][1]))]

\* ---------------------------------------------------------------- C5
NsMap == nsst.nsmap

\* The prefixes the map holds for URI v.
PrefixesOf(v) == {NsMap[i][1] : i \in {j \in 1..Len(NsMap) : NsMap[j][2] = v}}

\* The explicit prefixes URI v was declared with, in the nodes taken.
DeclaredFor(v) ==
    {nslst[i][1] : i \in {j \in 1..nsi : nslst[j][2] = v /\ nslst[j][1] # NoPrefix}}

RECURSIVE FirstMet(_)
FirstMet(n) ==
    IF n = 0 THEN <<>>
    ELSE LET before == FirstMet(n - 1)
             v == nslst[n][2]
         IN  IF v = "" \/ \E i \in 1..Len(before) : before[i] = v
             THEN before ELSE Append(before, v)

\* C6: for namespace nodes that are all default namespaces, with k
\* distinct non-empty URIs, the map has exactly the k entries ns98, ns99,
\* ..., ns(97+k), in the order the URIs are first met; meeting a mapped
\* URI again, or an empty URI, adds no entry and leaves the counter.
C6_SyntheticPrefixes ==
    (pc = "ns" /\ \A i \in 1..nsi : nslst[i][1] = NoPrefix)
        => /\ NsMap = [j \in 1..Len(FirstMet(nsi)) |->
                          <<"ns" \o ToString(97 + j), FirstMet(nsi)[j]>>]
           /\ nsst.nsidx = IF Len(FirstMet(nsi)) = 0 THEN 98
                           ELSE 97 + Len(FirstMet(nsi))

\* Two default namespaces, the first met again and an empty URI: two entries.
C6_Witness ==
    /\ pc = "ns" /\ nsi = 4
    /\ \A i \in 1..nsi : nslst[i][1] = NoPrefix
    /\ nslst[1][2] # "" /\ nslst[2][2] # "" /\ nslst[1] # nslst[2]
    /\ nslst[3] = nslst[1] /\ nslst[4][2] = ""
    /\ Len(NsMap) = 2 /\ nsst.nsidx = 99

\* --------------------------------------------------------------- C11
\* The lines mode 'all' is to print for a table: for each entry in table
\* order its qualified path, then one '<path>/@<attr>' line per attribute
\* name, none when the attribute names are absent or empty.
RECURSIVE Projection(_)
Projection(items) ==
    IF items = <<>> THEN <<>>
    ELSE LET v == Head(items)[2]
             names == IF v.attrs = None THEN <<>> ELSE v.attrs.names
         IN  <<[line |-> v.qpath]>>
                \o [i \in 1..Len(names) |-> [line |-> v.qpath \o <<"/", "@", names[i]>>]]
                \o Projection(Tail(items))

\* C11: in mode 'all', for any table parse_mixed_ns returned (tables with
\* comment or processing-instruction entries whose attributeNames is None
\* included), print_xpaths does not raise and prints, for each entry in
\* table order, its qualified path followed by one '<path>/@<attr>' line
\* per attribute name.
C11_AllIsTotalProjection ==
    (pc = "printed" /\ mode = "all" /\ Compliant)
        => /\ ~printed.raised
           /\ printed.out = Projection(Items)

\* --------------------------------------------------------------- C12
\* The anchor at the start of _build_path_from_parts: what comes before
\* the first "/*" of xp.
Anchor == SplitOn(built.xp, "/", "*")[1]

\* The qualified path of the anchor's record, "" when it has none.
AnchorPath ==
    IF DictGet(built.before, Anchor) = None THEN <<>>
    ELSE DictGet(built.before, Anchor).qpath

\* C12: for the wildcard raw path xp of a node without parent,
\* _build_path_from_parts leaves a record for xp whose qualifiedPath is
\* the qualified path of the anchor's record ("" when the anchor has no
\* record) followed by "/" and the qualified name of the node; the raw
\* path "/*" gives "/" and the qualified name; no key other than xp is
\* written.
C12_FallbackComposition ==
    pc = "built" =>
        /\ DictKeys(built.after) = DictKeys(built.before)
        /\ \A i \in 1..Len(built.after) :
              built.after[i][1] # built.xp => built.after[i] = built.before[i]
        /\ DictGet(built.after, built.xp) # None
        /\ DictGet(built.after, built.xp).qpath =
              AnchorPath \o <<"/">>
                 \o get_qualified_name(QName(doc, built.node), built.revns)
        /\ built.xp = <<"/", "*">> =>
              DictGet(built.after, built.xp).qpath =
                 <<"/">> \o get_qualified_name(QName(doc, built.node), built.revns)

\* The root element of a default namespace, reached after the record of a
\* comment that comes before it: "/*" becomes "/ns98:a".
C12_Witness ==
    /\ pc = "built"
    /\ built.xp = <<"/", "*">>
    /\ Len(built.before) >= 2
    /\ built.before[1][2] # None
    /\ DictGet(built.before, built.xp) = None
    /\ DictGet(built.after, built.xp).qpath = <<"/", "ns98", ":", "a">>
====
